---- MODULE Spec2Model ----
(***************************************************************************)
(* nsGridRowGroupLayout (layout/xul/base/src/grid): the layout delegate of *)
(* a container of grid rows.  The model holds the box tree under the box   *)
(* the layout is attached to (children in document order, scroll frames,   *)
(* nested row groups), the shared grid that box may belong to, and one     *)
(* action per method of the class.  A method runs to completion in one     *)
(* step: layout is single threaded and no method yields.  The monuments    *)
(* nested in the tree are row groups themselves, so a nested DirtyRows,    *)
(* CountRowsColumns or BuildRows is this class's own.                      *)
(***************************************************************************)
EXTENDS Integers, Sequences, FiniteSets, TLC

----------------------------------------------------------------------------
\* Bounds of the model.

\* Largest number of boxes of a box tree the row walks are run on.
MaxBoxes == 4

\* Largest number of extra columns of the grid.
MaxExtraColumns == 2

\* Largest aRowCount / aComputedColumnCount a caller hands to CountRowsColumns.
MaxCountIn == 2

\* Largest index GetGrid resolves for the box.
MaxGridIndex == 1

\* Largest box tree of the specification that runs every method.
MaxStatusBoxes == 2

----------------------------------------------------------------------------
\* Values of the program.

\* The box every method is invoked on (aBox): the box this layout is attached to.
Root == 1

\* nsnull
Null == 0

\* The unconstrained size: nscoord is a PRInt32 and NS_INTRINSICSIZE is 1 << 30.
NS_INTRINSICSIZE == 1073741824

\* nsresult values.  Crash stands for a call that never returns to its caller:
\* a virtual call through a null nsIBox* reads the vtable pointer at address 0,
\* which ends the process, and no method runs after it.
NS_OK == "NS_OK"
NS_ERROR_FAILURE == "NS_ERROR_FAILURE"
Crash == "crash"

\* What a box is, as far as GetLayoutManager and the two QueryInterface tests
\* can tell: no layout manager, a layout manager that is no grid part, a row
\* group (a grid part: a monument), or a scrollable frame.
BoxKinds == {"none", "box", "group", "scroll"}

\* The three size queries.
SizeKinds == {"Pref", "Max", "Min"}

SizeMethod(sizeKind) == "Get" \o sizeKind \o "Size"

SizeMethods == {SizeMethod(k) : k \in SizeKinds}

\* An nsSize.
Size(w, h) == [width |-> w, height |-> h]

ZeroSize == Size(0, 0)

VARIABLES
  \* the box tree
  kind,        \* what each box of the tree is: [1..n -> BoxKinds]
  childBoxes,  \* each box's children, in GetChildBox / GetNextBox order
  dirty,       \* the boxes MarkDirty was called on
  \* the box's place in the grid
  hasGrid,     \* GetGrid finds a grid for the box
  isRow,       \* IsHorizontal(aBox)
  grid,        \* the grid: column counts and row heights per orientation
  baseSize,    \* the size nsGridRowLayout computes for the box
  \* what the method that ran last did
  op,          \* its name
  rv,          \* the nsresult it returned, or Crash
  dirtyPre,    \* dirty before it ran
  calls,       \* DirtyRows invocations per box
  rowCountIn,  \* aRowCount handed to CountRowsColumns
  rowCountOut, \* aRowCount after CountRowsColumns
  colCountIn,  \* aComputedColumnCount handed to CountRowsColumns
  colCountOut, \* aComputedColumnCount after CountRowsColumns
  aRows,       \* the caller's buffer after BuildRows
  aCount,      \* *aCount after BuildRows
  overrun,     \* BuildRows wrote past the end of aRows
  aSizeOut,    \* aSize after a size query
  baseRv,      \* the nsresult of the nsGridRowLayout method it called
  gridReads,   \* the grid's columns and row heights it read, in order
  repeated,    \* the method before it was the same size query
  prevSize,    \* aSize after that query
  notified,    \* the RowAddedOrRemoved notifications it sent the grid
  gridIndex,   \* the index GetGrid resolved
  aRowGroup    \* *aRowGroup after CastToRowGroupLayout

treeVars == <<kind, childBoxes>>
gridVars == <<hasGrid, isRow, grid, baseSize>>
vars == <<kind, childBoxes, dirty, hasGrid, isRow, grid, baseSize, op, rv,
          dirtyPre, calls, rowCountIn, rowCountOut, colCountIn, colCountOut,
          aRows, aCount, overrun, aSizeOut, baseRv, gridReads, repeated,
          prevSize, notified, gridIndex, aRowGroup>>

\* The boxes of the tree.
Boxes == DOMAIN kind

----------------------------------------------------------------------------
\* What a method leaves behind is its own: the counters, the buffer and the
\* size are the caller's locals of that one call.

NoCalls == [b \in Boxes |-> 0]

NoDirtyRows == calls' = NoCalls

NoCount ==
  /\ rowCountIn' = 0
  /\ rowCountOut' = 0
  /\ colCountIn' = 0
  /\ colCountOut' = 0

NoRows ==
  /\ aRows' = <<>>
  /\ aCount' = 0
  /\ overrun' = FALSE

NoSize ==
  /\ aSizeOut' = ZeroSize
  /\ gridReads' = <<>>
  /\ repeated' = FALSE
  /\ prevSize' = ZeroSize

NoBase == baseRv' = NS_OK

NoNotice ==
  /\ notified' = <<>>
  /\ gridIndex' = 0

NoCast == aRowGroup' = "null"

\* The status of a row walk: a null dereference never returns.
Status(crashed) == IF crashed THEN Crash ELSE NS_OK

----------------------------------------------------------------------------
\* ChildAddedOrRemoved.

RowChange_OtherAxis(index, aIsRow) == [index |-> index, isRow |-> ~aIsRow]

\* The arguments of grid->RowAddedOrRemoved(aState, index, isRow)
RowChange(index, aIsRow) == [index |-> index, isRow |-> aIsRow]

\* index is what GetGrid resolves at the time of the call.
ChildAddedOrRemoved(aBox, index) ==
  /\ rv # Crash
  /\ gridIndex' = (IF hasGrid THEN index ELSE 0)
  /\ notified' = (IF hasGrid THEN <<RowChange(gridIndex', isRow)>> ELSE <<>>)
  /\ op' = "ChildAddedOrRemoved"
  /\ rv' = NS_OK
  /\ dirtyPre' = dirty
  /\ NoDirtyRows /\ NoCount /\ NoRows /\ NoSize /\ NoBase /\ NoCast
  /\ UNCHANGED <<dirty, treeVars, gridVars>>

----------------------------------------------------------------------------
\* Size aggregation: GetPrefSize, GetMaxSize, GetMinSize.

\* GET_WIDTH(aSize, aIsRow): the component of a size a horizontal box grows in
\* is its width, that of a vertical box its height.
GET_WIDTH(aIsRow) == IF aIsRow THEN "width" ELSE "height"

AddWidth_SizeOnly(aSize, aSize2, aIsRow) ==
  LET f == GET_WIDTH(aIsRow)
  IN IF aSize[f] = NS_INTRINSICSIZE \/ aSize2 = NS_INTRINSICSIZE
     THEN aSize
     ELSE [aSize EXCEPT ![f] = @ + aSize2]

AddWidth(aSize, aSize2, aIsRow) ==
  LET f == GET_WIDTH(aIsRow)
  IN IF aSize[f] = NS_INTRINSICSIZE \/ aSize2 = NS_INTRINSICSIZE
     THEN [aSize EXCEPT ![f] = NS_INTRINSICSIZE]
     ELSE [aSize EXCEPT ![f] = @ + aSize2]

\* nsGridRowLayout::Get{Pref,Max,Min}Size(aBox, aState, aSize): the base
\* delegate stores the size it computes from the box's children in aSize.
BaseGetSize(sizeKind, aSizeIn) == baseSize

BaselineOf_Incoming(aSizeIn, computed) == aSizeIn

\* aSize when the fold starts: what the base delegate stored, whatever the
\* caller's aSize held before.
BaselineOf(aSizeIn, computed) == computed

GridFound_Always(found) == TRUE

\* if (grid)
GridFound(found) == found

\* grid->GetExtraColumnCount(isRow)
GetExtraColumnCount(aIsRow) == grid.extraColumnCount[aIsRow]

\* grid->GetColumnCount(isRow)
GetColumnCount(aIsRow) == grid.columnCount[aIsRow]

\* grid->Get{Pref,Max,Min}RowHeight(aState, index, size, aIsHorizontal); index
\* counts from 0.
GetRowHeight(sizeKind, index, aIsHorizontal) ==
  grid.rowHeight[sizeKind][aIsHorizontal][index + 1]

ColumnAxis_Same(aIsRow) == aIsRow

\* The orientation the extra columns' sizes are read along: !isRow
ColumnAxis(aIsRow) == ~aIsRow

\* start = grid->GetColumnCount(isRow) - grid->GetExtraColumnCount(isRow)
FirstExtraColumn(columnCount, extraColumns) == columnCount - extraColumns

\* One read of the grid, as gridReads records it.
Read(fn, index, aIsHorizontal) ==
  [fn |-> fn, index |-> index, isHorizontal |-> aIsHorizontal]

\* The for loop over the extra columns, from i on; st holds aSize and the
\* reads of the grid so far.
RECURSIVE AddExtraColumns(_, _, _, _, _)
AddExtraColumns(sizeKind, st, i, start, extraColumns) ==
  IF i >= extraColumns THEN st
  ELSE LET size == GetRowHeight(sizeKind, i + start, ColumnAxis(isRow))
       IN AddExtraColumns(sizeKind,
            [aSize |-> AddWidth(st.aSize, size, isRow),
             reads |-> st.reads \o
                         <<Read("GetColumnAt", i + start, isRow),
                           Read(sizeKind, i + start, ColumnAxis(isRow))>>],
            i + 1, start, extraColumns)

\* The body of a size query after the base delegate's call.
SizeQuery(sizeKind, aSizeIn) ==
  LET baseline == BaselineOf(aSizeIn, BaseGetSize(sizeKind, aSizeIn))
  IN IF GridFound(hasGrid)
     THEN AddExtraColumns(sizeKind, [aSize |-> baseline, reads |-> <<>>], 0,
            FirstExtraColumn(GetColumnCount(isRow), GetExtraColumnCount(isRow)),
            GetExtraColumnCount(isRow))
     ELSE [aSize |-> baseline, reads |-> <<>>]

ReturnStatus_Success(baseStatus) == NS_OK

\* return rv
ReturnStatus(baseStatus) == baseStatus

\* aSizeIn is what the caller's nsSize holds on entry; baseStatus is what the
\* base delegate returns.
GetSize(sizeKind, aBox, aSizeIn, baseStatus) ==
  LET r == SizeQuery(sizeKind, aSizeIn)
  IN /\ rv # Crash
     /\ aSizeOut' = r.aSize
     /\ gridReads' = r.reads
     /\ baseRv' = baseStatus
     /\ rv' = ReturnStatus(baseStatus)
     /\ repeated' = (op = SizeMethod(sizeKind))
     /\ prevSize' = (IF repeated' THEN aSizeOut ELSE ZeroSize)
     /\ op' = SizeMethod(sizeKind)
     /\ dirtyPre' = dirty
     /\ NoDirtyRows /\ NoCount /\ NoRows /\ NoNotice /\ NoCast
     /\ UNCHANGED <<dirty, treeVars, gridVars>>

GetPrefSize(aBox, aSizeIn, baseStatus) == GetSize("Pref", aBox, aSizeIn, baseStatus)

GetMaxSize(aBox, aSizeIn, baseStatus) == GetSize("Max", aBox, aSizeIn, baseStatus)

GetMinSize(aBox, aSizeIn, baseStatus) == GetSize("Min", aBox, aSizeIn, baseStatus)

----------------------------------------------------------------------------
\* Layout and CastToRowGroupLayout.

\* return nsGridRowLayout::Layout(aBox, aBoxLayoutState)
Layout(aBox, baseStatus) ==
  /\ rv # Crash
  /\ baseRv' = baseStatus
  /\ rv' = ReturnStatus(baseStatus)
  /\ op' = "Layout"
  /\ dirtyPre' = dirty
  /\ NoDirtyRows /\ NoCount /\ NoRows /\ NoSize /\ NoNotice /\ NoCast
  /\ UNCHANGED <<dirty, treeVars, gridVars>>

CastToRowGroupLayout ==
  /\ rv # Crash
  /\ aRowGroup' = "this"
  /\ rv' = NS_OK
  /\ op' = "CastToRowGroupLayout"
  /\ dirtyPre' = dirty
  /\ NoDirtyRows /\ NoCount /\ NoRows /\ NoSize /\ NoBase /\ NoNotice
  /\ UNCHANGED <<dirty, treeVars, gridVars>>

----------------------------------------------------------------------------
\* Child classification.

\* nsIScrollableFrame::GetScrolledFrame followed by the QueryInterface to
\* nsIBox: the scrolled content, or null when the frame has none.
GetScrolledFrame(aBox) ==
  IF childBoxes[aBox] = <<>> THEN Null ELSE childBoxes[aBox][1]

CheckForScrollFrame_NoUnwrap(aChild) == aChild

CheckForScrollFrame(aChild) ==
  IF kind[aChild] = "scroll" THEN GetScrolledFrame(aChild) ELSE aChild

\* deepChild->GetLayoutManager(getter_AddRefs(layout)); if (layout)
HasLayout(aBox) == kind[aBox] # "none"

\* nsCOMPtr<nsIGridPart> monument( do_QueryInterface(layout) ); if (monument)
IsMonument(aBox) == HasLayout(aBox) /\ kind[aBox] = "group"

----------------------------------------------------------------------------
\* DirtyRows.

RECURSIVE DirtyRowsWalk(_, _, _)
RECURSIVE DirtyRowsBox(_, _)

\* The while loop of DirtyRows from the i-th child of aBox on.  st holds the
\* boxes marked so far, the DirtyRows invocations so far, and whether the walk
\* dereferenced a null deepChild.
DirtyRowsWalk(aBox, i, st) ==
  IF st.crashed \/ i > Len(childBoxes[aBox]) THEN st
  ELSE LET child == childBoxes[aBox][i]
           deepChild == CheckForScrollFrame(child)
       IN IF deepChild = Null
          THEN [st EXCEPT !.crashed = TRUE]
          ELSE IF IsMonument(deepChild)
               THEN DirtyRowsWalk(aBox, i + 1, DirtyRowsBox(deepChild, st))
               ELSE DirtyRowsWalk(aBox, i + 1, st)

DirtyRowsBox(aBox, st) ==
  IF aBox = Null THEN st
  ELSE DirtyRowsWalk(aBox, 1, [st EXCEPT !.marked = @ \cup {aBox},
                                         !.calls[aBox] = @ + 1])

DirtyRows(aBox) ==
  LET r == DirtyRowsBox(aBox, [marked |-> dirty, calls |-> NoCalls,
                               crashed |-> FALSE])
  IN /\ rv # Crash
     /\ dirty' = r.marked
     /\ dirtyPre' = dirty
     /\ calls' = r.calls
     /\ op' = "DirtyRows"
     /\ rv' = Status(r.crashed)
     /\ NoCount /\ NoRows /\ NoSize /\ NoBase /\ NoNotice /\ NoCast
     /\ UNCHANGED <<treeVars, gridVars>>

----------------------------------------------------------------------------
\* CountRowsColumns.

CountBogusRow_Skip(aRowCount) == aRowCount

\* aRowCount++ for a child that is no monument
CountBogusRow(aRowCount) == aRowCount + 1

RECURSIVE CountRowsColumnsWalk(_, _, _)
RECURSIVE CountRowsColumnsBox(_, _)

\* The while loop of CountRowsColumns from the i-th child of aBox on; st holds
\* aRowCount and aComputedColumnCount, both passed by reference down the walk.
CountRowsColumnsWalk(aBox, i, st) ==
  IF st.crashed \/ i > Len(childBoxes[aBox]) THEN st
  ELSE LET child == childBoxes[aBox][i]
           deepChild == CheckForScrollFrame(child)
       IN IF deepChild = Null
          THEN [st EXCEPT !.crashed = TRUE]
          ELSE IF IsMonument(deepChild)
               THEN CountRowsColumnsWalk(aBox, i + 1,
                                         CountRowsColumnsBox(deepChild, st))
               ELSE CountRowsColumnsWalk(aBox, i + 1,
                      [st EXCEPT !.aRowCount = CountBogusRow(@)])

CountRowsColumnsBox(aBox, st) ==
  IF aBox = Null THEN st ELSE CountRowsColumnsWalk(aBox, 1, st)

CountRowsColumns(aBox, aRowCount, aComputedColumnCount) ==
  LET r == CountRowsColumnsBox(aBox,
             [aRowCount |-> aRowCount,
              aComputedColumnCount |-> aComputedColumnCount,
              crashed |-> FALSE])
  IN /\ rv # Crash
     /\ rowCountIn' = aRowCount
     /\ colCountIn' = aComputedColumnCount
     /\ rowCountOut' = r.aRowCount
     /\ colCountOut' = r.aComputedColumnCount
     /\ op' = "CountRowsColumns"
     /\ rv' = Status(r.crashed)
     /\ dirtyPre' = dirty
     /\ NoDirtyRows /\ NoRows /\ NoSize /\ NoBase /\ NoNotice /\ NoCast
     /\ UNCHANGED <<dirty, treeVars, gridVars>>

----------------------------------------------------------------------------
\* BuildRows.

\* A slot of the buffer BuildRows has not written.
Unwritten == [box |-> Null, isBogus |-> FALSE]

\* nsGridRow::Init(aBox, aIsBogus)
InitRow(aBox, aIsBogus) == [box |-> aBox, isBogus |-> aIsBogus]

BogusRowBox_Unwrapped(child, deepChild) == deepChild

\* The box aRows[rowCount].Init(child, PR_TRUE) is given: the child itself,
\* not the box found inside a scroll frame.
BogusRowBox(child, deepChild) == child

\* rowCount += count after a monument's BuildRows
AdvanceRowCount(rowCount, count) == rowCount + count

\* aRows[index].Init(...): index counts from 0; a write past the end of the
\* buffer is recorded, the buffer itself is left as it is.
WriteRow(st, index, row) ==
  IF index < Len(st.aRows)
  THEN [st EXCEPT !.aRows[index + 1] = row]
  ELSE [st EXCEPT !.overrun = TRUE]

RECURSIVE BuildRowsWalk(_, _, _, _, _)
RECURSIVE BuildRowsBox(_, _, _)

\* The while loop of BuildRows from the i-th child of aBox on.  The callee's
\* aRows is the caller's buffer from slot base on (&aRows[rowCount]); st.count
\* is what the call that returned last stored through its aCount.
BuildRowsWalk(aBox, i, base, rowCount, st) ==
  IF st.crashed THEN st
  ELSE IF i > Len(childBoxes[aBox]) THEN [st EXCEPT !.count = rowCount]
  ELSE LET child == childBoxes[aBox][i]
           deepChild == CheckForScrollFrame(child)
       IN IF deepChild = Null
          THEN [st EXCEPT !.crashed = TRUE]
          ELSE IF IsMonument(deepChild)
               THEN LET sub == BuildRowsBox(deepChild, base + rowCount, st)
                    IN BuildRowsWalk(aBox, i + 1, base,
                                     AdvanceRowCount(rowCount, sub.count), sub)
               ELSE BuildRowsWalk(aBox, i + 1, base, rowCount + 1,
                      WriteRow(st, base + rowCount,
                               InitRow(BogusRowBox(child, deepChild), TRUE)))

BuildRowsBox(aBox, base, st) ==
  IF aBox = Null THEN [st EXCEPT !.count = 0]
  ELSE BuildRowsWalk(aBox, 1, base, 0, st)

\* BuildRows into a fresh buffer of the given capacity.
BuildRowsInto(aBox, capacity) ==
  BuildRowsBox(aBox, 0, [aRows |-> [i \in 1..capacity |-> Unwritten],
                         count |-> 0, overrun |-> FALSE, crashed |-> FALSE])

\* A write past the end of the buffer is undefined: the call may never return,
\* or return with memory outside the buffer overwritten.
BuildRowsOutcomes(r) ==
  IF r.crashed THEN {Crash}
  ELSE IF r.overrun THEN {Crash, NS_OK}
  ELSE {NS_OK}

BuildRows(aBox, capacity) ==
  LET r == BuildRowsInto(aBox, capacity)
  IN /\ rv # Crash
     /\ rv' \in BuildRowsOutcomes(r)
     /\ aRows' = r.aRows
     /\ aCount' = IF rv' = Crash THEN 0 ELSE r.count
     /\ overrun' = r.overrun
     /\ op' = "BuildRows"
     /\ dirtyPre' = dirty
     /\ NoDirtyRows /\ NoCount /\ NoSize /\ NoBase /\ NoNotice /\ NoCast
     /\ UNCHANGED <<dirty, treeVars, gridVars>>

----------------------------------------------------------------------------
----------------------------------------------------------------------------
\* The states the methods start from.

\* The boxes from aBox up to the root, aBox included.
RECURSIVE Ancestors(_, _)
Ancestors(parent, aBox) ==
  IF aBox = Null THEN {} ELSE {aBox} \cup Ancestors(parent, parent[aBox])

\* The boxes of S in increasing order.
RECURSIVE Ascending(_)
Ascending(S) ==
  IF S = {} THEN <<>>
  ELSE LET m == CHOOSE x \in S : \A y \in S : x <= y
       IN <<m>> \o Ascending(S \ {m})

\* Every ordered tree of at most maxBoxes boxes, numbered in document (preorder) order:
\* box 1 is the root and each later box hangs under the box before it or under
\* one of that box's ancestors.  A scrollable frame has at most its one
\* scrolled child.
InitTree(maxBoxes) ==
  \E n \in 1..maxBoxes :
    /\ kind \in [1..n -> BoxKinds]
    /\ kind[Root] = "group"
    /\ \E parent \in [1..n -> 0..n] :
         /\ \A b \in 1..n : parent[b] < b
         /\ \A b \in 2..n : parent[b] \in Ancestors(parent, b - 1)
         /\ childBoxes = [b \in 1..n |->
                            Ascending({c \in 1..n : parent[c] = b})]
    /\ \A b \in 1..n : kind[b] = "scroll" => Len(childBoxes[b]) <= 1

\* Columns of the grid that are no extra columns.
OwnColumns == 1

\* Sizes the grid reports for an extra column.
ColumnSizes == {10, 15, NS_INTRINSICSIZE}

\* Sizes the base delegate computes along the box's axis.
BaselineSizes == {5, NS_INTRINSICSIZE - 10, NS_INTRINSICSIZE}

\* What the grid reports where the inputs are not varied: the size of a column
\* that is no extra column, of an extra column for another size query, and of
\* any row along the box's own axis.
FixedHeight(sizeKind) ==
  CASE sizeKind = "Pref" -> 20
    [] sizeKind = "Max" -> 40
    [] sizeKind = "Min" -> 5

\* A grid with e extra columns along aIsRow, of the sizes s for the query
\* sizeKind.  The columns of one orientation are the rows of the other.
MakeGrid(aIsRow, e, sizeKind, s) ==
  [columnCount |-> [f \in BOOLEAN |-> OwnColumns + e],
   extraColumnCount |-> [f \in BOOLEAN |-> IF f = aIsRow THEN e ELSE 0],
   rowHeight |-> [k \in SizeKinds |-> [f \in BOOLEAN |->
      IF f = aIsRow
      THEN [i \in 1..(OwnColumns + e) |-> 1]
      ELSE [i \in 1..(OwnColumns + e) |->
              IF i <= OwnColumns THEN 3
              ELSE IF k = sizeKind THEN s[i - OwnColumns]
              ELSE FixedHeight(k)]]]]

InitGrid(maxExtra) ==
  /\ hasGrid \in BOOLEAN
  /\ isRow \in BOOLEAN
  /\ \E a \in BaselineSizes :
       baseSize = (IF isRow THEN Size(a, 7) ELSE Size(7, a))
  /\ \E e \in 0..maxExtra, k \in SizeKinds :
       \E s \in [1..e -> ColumnSizes] : grid = MakeGrid(isRow, e, k, s)

InitResults ==
  /\ dirty = {}
  /\ op = "none"
  /\ rv = NS_OK
  /\ dirtyPre = {}
  /\ calls = NoCalls
  /\ rowCountIn = 0
  /\ rowCountOut = 0
  /\ colCountIn = 0
  /\ colCountOut = 0
  /\ aRows = <<>>
  /\ aCount = 0
  /\ overrun = FALSE
  /\ aSizeOut = ZeroSize
  /\ baseRv = NS_OK
  /\ gridReads = <<>>
  /\ repeated = FALSE
  /\ prevSize = ZeroSize
  /\ notified = <<>>
  /\ gridIndex = 0
  /\ aRowGroup = "null"

Statuses == {NS_OK, NS_ERROR_FAILURE}

\* What the caller's nsSize holds when it calls a size query: a fresh nsSize,
\* or the one the query before it filled.
SizesIn == {ZeroSize, aSizeOut}

NextRows ==
  \/ DirtyRows(Root)
  \/ \E n \in 0..MaxCountIn : CountRowsColumns(Root, n, MaxCountIn - n)
  \/ \E n \in 0..(Cardinality(Boxes) - 1) : BuildRows(Root, n)

NextSize ==
  \/ \E i \in 0..MaxGridIndex : ChildAddedOrRemoved(Root, i)
  \/ \E s \in SizesIn, st \in Statuses : GetPrefSize(Root, s, st)
  \/ \E s \in SizesIn, st \in Statuses : GetMaxSize(Root, s, st)
  \/ \E s \in SizesIn, st \in Statuses : GetMinSize(Root, s, st)
  \/ \E st \in Statuses : Layout(Root, st)
  \/ CastToRowGroupLayout

\* The row walks on every box tree; they read neither the grid nor a size.
InitRows ==
  /\ InitTree(MaxBoxes)
  /\ hasGrid = FALSE
  /\ isRow = FALSE
  /\ baseSize = Size(7, 5)
  /\ grid = MakeGrid(FALSE, 0, "Pref", <<>>)
  /\ InitResults

SpecRows == InitRows /\ [][NextRows]_vars

\* The size queries and the notification on every grid; they do not walk the
\* children of the box.
InitSize ==
  /\ kind = <<"group">>
  /\ childBoxes = <<(<<>>)>>
  /\ InitGrid(MaxExtraColumns)
  /\ InitResults

SpecSize == InitSize /\ [][NextSize]_vars

\* Every method, on the small box trees and a grid without extra columns.
Init ==
  /\ InitTree(MaxStatusBoxes)
  /\ InitGrid(0)
  /\ InitResults

Next == NextRows \/ NextSize

Spec == Init /\ [][Next]_vars

----------------------------------------------------------------------------
\* The box tree as the properties speak of it.

\* The box that carries the grid semantics of a child: the scrolled content of
\* a scroll frame (Null when it has none), the child itself otherwise.
EffectiveChild(c) ==
  IF kind[c] = "scroll"
  THEN (IF Len(childBoxes[c]) = 0 THEN Null ELSE Head(childBoxes[c]))
  ELSE c

Monument(b) == b # Null /\ kind[b] = "group"

ParentOf(b) ==
  IF \E p \in Boxes : \E i \in 1..Len(childBoxes[p]) : childBoxes[p][i] = b
  THEN CHOOSE p \in Boxes : \E i \in 1..Len(childBoxes[p]) : childBoxes[p][i] = b
  ELSE Null

\* The box whose walk meets b as an effective child.
Holder(b) ==
  LET p == ParentOf(b)
  IN IF p # Null /\ kind[p] = "scroll" THEN ParentOf(p) ELSE p

\* b is the root, or a monument met by the walk of a box that is reached.
RECURSIVE Reached(_)
Reached(b) ==
  \/ b = Root
  \/ b # Null /\ Monument(b) /\ Holder(b) # Null /\ Reached(Holder(b))

\* Some box the walk reaches has a scroll frame without content as a child.
EmptyScrollMet ==
  \E b \in Boxes : Reached(b) /\
    \E i \in 1..Len(childBoxes[b]) :
      LET c == childBoxes[b][i]
      IN kind[c] = "scroll" /\ Len(childBoxes[c]) = 0

\* The rows of b in document order, a monument child standing for its own
\* rows; leaf(c) is the box a child that is no monument is listed as.
RECURSIVE RowsInOrder(_, _, _)
RowsInOrder(b, i, unwrapLeaf) ==
  IF i > Len(childBoxes[b]) THEN <<>>
  ELSE LET c == childBoxes[b][i]
           d == EffectiveChild(c)
       IN (IF Monument(d) THEN RowsInOrder(d, 1, unwrapLeaf)
           ELSE IF unwrapLeaf THEN <<d>> ELSE <<c>>)
          \o RowsInOrder(b, i + 1, unwrapLeaf)

\* The boxes the first n descriptors of the buffer refer to.
RowBoxes(n) == [i \in 1..n |-> aRows[i].box]

RowWalks == {"DirtyRows", "CountRowsColumns", "BuildRows"}

----------------------------------------------------------------------------
\* C1: the row count CountRowsColumns reports for a box, starting from a row
\* counter of zero, is the count BuildRows reports for the same box into a
\* buffer of that many slots, and BuildRows stays inside that buffer.  Stated
\* for both orders: after a count, building into a buffer of the counted size;
\* after a build into a buffer of the size a count from zero reports.
C1_CountMatchesBuild ==
  /\ (op = "CountRowsColumns" /\ rv = NS_OK /\ rowCountIn = 0) =>
       LET b == BuildRowsInto(Root, rowCountOut)
       IN ~b.crashed /\ ~b.overrun /\ b.count = rowCountOut
  /\ (op = "BuildRows" /\ rv = NS_OK) =>
       LET c == CountRowsColumnsBox(Root, [aRowCount |-> 0,
                   aComputedColumnCount |-> 0, crashed |-> FALSE])
       IN Len(aRows) = c.aRowCount => (~overrun /\ aCount = c.aRowCount)

\* C1's case: a build into a buffer sized by the count, over a tree with a
\* nested monument that has a row of its own next to a row of the box itself.
C1_Witness ==
  /\ op = "BuildRows" /\ rv = NS_OK /\ ~overrun
  /\ aCount = 2 /\ Len(aRows) = 2
  /\ \E i, j \in 1..2 : ParentOf(aRows[i].box) = Root
                        /\ ParentOf(aRows[j].box) # Root

\* C2 as claimed: the boxes BuildRows lists are the effective
\* (scroll-unwrapped) children in document order, a monument standing for its
\* own flattened rows.
C2_OrderOfEffectiveChildren ==
  (op = "BuildRows" /\ rv = NS_OK /\ ~overrun) =>
    RowBoxes(aCount) = RowsInOrder(Root, 1, TRUE)

\* C2 as amended: the boxes BuildRows lists are, in document order, the rows
\* of each monument child (found through a scroll frame) in place of that
\* child, and every child that is no monument listed as the child itself, the
\* scroll frame and not its content; every descriptor written is a bogus row
\* and the slots after the count are left alone.
C2_OrderOfChildren ==
  (op = "BuildRows" /\ rv = NS_OK /\ ~overrun) =>
    /\ aCount <= Len(aRows)
    /\ RowBoxes(aCount) = RowsInOrder(Root, 1, FALSE)
    /\ \A i \in 1..Len(aRows) :
         IF i <= aCount THEN aRows[i].isBogus ELSE aRows[i] = Unwritten

\* C2's case: a nested monument's row standing in the buffer of the box, that
\* row being a scroll frame around a child that is no monument, listed as
\* the scroll frame itself.
C2_Witness ==
  /\ op = "BuildRows" /\ rv = NS_OK /\ ~overrun
  /\ \E i \in 1..aCount :
       /\ kind[aRows[i].box] = "scroll"
       /\ ParentOf(aRows[i].box) # Root

\* C6: DirtyRows marks the box dirty and invokes DirtyRows exactly once on
\* every monument met as an effective child, down through nested row groups;
\* no other box is invoked or marked, so a child that is no monument is
\* neither marked nor walked into.
C6_DirtyReachesMonuments ==
  (op = "DirtyRows" /\ rv = NS_OK) =>
    /\ \A b \in Boxes : calls[b] = (IF Reached(b) THEN 1 ELSE 0)
    /\ dirty = dirtyPre \cup {b \in Boxes : Reached(b)}

\* C6's case: a monument inside a scroll frame was invoked and marked, and a
\* sibling that is no monument was left unmarked.
C6_Witness ==
  /\ op = "DirtyRows" /\ rv = NS_OK
  /\ \E b \in Boxes : /\ ParentOf(b) # Null
                      /\ kind[ParentOf(b)] = "scroll"
                      /\ calls[b] = 1 /\ b \in dirty
  /\ \E b \in Boxes : ParentOf(b) = Root /\ kind[b] = "box" /\ b \notin dirty

\* C10 as claimed: a row walk that meets a scroll frame without content goes
\* on and returns success.
C10_EmptyScrollTolerated ==
  (op \in RowWalks /\ EmptyScrollMet /\ ~overrun) => rv = NS_OK

----------------------------------------------------------------------------
\* The grid as the properties speak of it.

\* The size query that ran last.
QueryKind == CHOOSE k \in SizeKinds : SizeMethod(k) = op

\* The component of a size along the box's axis, and the other one.
Axis == IF isRow THEN "width" ELSE "height"
CrossAxis == IF isRow THEN "height" ELSE "width"

\* The indices of the extra columns, counted from 0, in order.
ExtraIndices ==
  [i \in 1..grid.extraColumnCount[isRow] |->
     grid.columnCount[isRow] - grid.extraColumnCount[isRow] + i - 1]

\* The sizes of the extra columns for the query sizeKind, read along the
\* opposite orientation, in order.
ExtraSizes(sizeKind) ==
  [i \in 1..Len(ExtraIndices) |->
     grid.rowHeight[sizeKind][~isRow][ExtraIndices[i] + 1]]

RECURSIVE Sum(_)
Sum(seq) == IF seq = <<>> THEN 0 ELSE Head(seq) + Sum(Tail(seq))

\* baseline plus the first n extra sizes.
PartialSum(sizeKind, n) ==
  baseSize[Axis] + Sum(SubSeq(ExtraSizes(sizeKind), 1, n))

AllFinite(sizeKind) ==
  /\ baseSize[Axis] # NS_INTRINSICSIZE
  /\ \A i \in 1..Len(ExtraIndices) :
       ExtraSizes(sizeKind)[i] # NS_INTRINSICSIZE

\* What a query is to read of the grid: each extra column, and its size for
\* the query along the opposite orientation.
ExpectedReads(sizeKind) ==
  [j \in 1..(2 * Len(ExtraIndices)) |->
     IF j % 2 = 1
     THEN [fn |-> "GetColumnAt", index |-> ExtraIndices[(j + 1) \div 2],
           isHorizontal |-> isRow]
     ELSE [fn |-> sizeKind, index |-> ExtraIndices[j \div 2],
           isHorizontal |-> ~isRow]]

\* C3: a size query on a box with a grid returns the unconstrained size along
\* the box's axis when the baseline or any one extra column's size is
\* unconstrained, whatever the other sizes and wherever it stands in the fold.
C3_SentinelDominates ==
  (op \in SizeMethods) =>
    ((baseSize[Axis] = NS_INTRINSICSIZE
       \/ (hasGrid /\ \E i \in 1..Len(ExtraIndices) :
                        ExtraSizes(QueryKind)[i] = NS_INTRINSICSIZE))
     => aSizeOut[Axis] = NS_INTRINSICSIZE)

\* C3's case: a finite baseline, a finite first extra column and an
\* unconstrained second one.
C3_Witness ==
  /\ op = "GetMaxSize" /\ hasGrid
  /\ baseSize[Axis] = 5
  /\ ExtraSizes("Max") = <<15, NS_INTRINSICSIZE>>
  /\ aSizeOut[Axis] = NS_INTRINSICSIZE

\* C4 as claimed: with a grid and the baseline and all extra columns finite, a
\* size query returns the baseline with the sum of the extra columns' sizes
\* added along the box's axis, the other component unchanged, reading exactly
\* the extra columns along the opposite orientation.
C4_FiniteSum ==
  (op \in SizeMethods /\ hasGrid /\ AllFinite(QueryKind)) =>
    /\ aSizeOut[Axis] = baseSize[Axis] + Sum(ExtraSizes(QueryKind))
    /\ aSizeOut[CrossAxis] = baseSize[CrossAxis]
    /\ gridReads = ExpectedReads(QueryKind)

\* C4 as amended: the same, provided every partial sum of the fold stays
\* below the unconstrained size; a partial sum equal to it is taken for
\* unconstrained and the sizes after it are no longer added.
C4_FiniteSumBelowSentinel ==
  (/\ op \in SizeMethods /\ hasGrid /\ AllFinite(QueryKind)
   /\ \A n \in 0..Len(ExtraIndices) :
        PartialSum(QueryKind, n) < NS_INTRINSICSIZE) =>
    /\ aSizeOut[Axis] = baseSize[Axis] + Sum(ExtraSizes(QueryKind))
    /\ aSizeOut[CrossAxis] = baseSize[CrossAxis]
    /\ gridReads = ExpectedReads(QueryKind)

\* C4's case: extra columns of 10 and 15 add 25 to the baseline.
C4_Witness ==
  /\ op = "GetPrefSize" /\ hasGrid
  /\ ExtraSizes("Pref") = <<10, 15>>
  /\ baseSize[Axis] = 5
  /\ aSizeOut[Axis] = 30

\* C5: without a grid a size query returns the base delegate's size on both
\* axes and reads nothing of any grid.
C5_NoGridPassthrough ==
  (op \in SizeMethods /\ ~hasGrid) =>
    (aSizeOut = baseSize /\ gridReads = <<>>)

\* C5's case: the box has no grid while the document's grid has extra columns.
C5_Witness ==
  /\ op = "GetMinSize" /\ ~hasGrid
  /\ grid.extraColumnCount[isRow] = 2
  /\ aSizeOut = baseSize

\* C7: ChildAddedOrRemoved returns success; with a grid it sends exactly one
\* notification, carrying the index GetGrid resolved and the box's
\* orientation; without one it sends none and marks nothing.
C7_NotifiesGridOnce ==
  (op = "ChildAddedOrRemoved") =>
    /\ rv = NS_OK
    /\ dirty = dirtyPre
    /\ notified = (IF hasGrid
                   THEN <<[index |-> gridIndex, isRow |-> isRow]>>
                   ELSE <<>>)

\* C7's case: a notification for index 1 of a vertical box.
C7_Witness ==
  /\ op = "ChildAddedOrRemoved" /\ hasGrid /\ ~isRow
  /\ notified = <<[index |-> 1, isRow |-> FALSE]>>

\* C8: a size query that follows the same size query returns the same size,
\* whether the caller hands in a fresh nsSize or the one the first call filled.
C8_RepeatedQuerySameSize ==
  (op \in SizeMethods /\ repeated) => aSizeOut = prevSize

\* C8's case: the repeated query added extra columns to the baseline.
C8_Witness ==
  /\ op = "GetPrefSize" /\ repeated /\ hasGrid
  /\ ExtraSizes("Pref") = <<10, 15>>
  /\ aSizeOut[Axis] = baseSize[Axis] + 25

\* C9 as claimed: every method that returns reports success, also when the
\* base delegate reports a failure.
C9_AlwaysSuccess ==
  (op # "none" /\ rv # Crash) => rv = NS_OK

\* C9 as amended: ChildAddedOrRemoved, DirtyRows, CountRowsColumns, BuildRows
\* and CastToRowGroupLayout report success whenever they return; the size
\* queries and Layout report what the base delegate reported.
C9_StatusByMethod ==
  /\ (op \in RowWalks \cup {"ChildAddedOrRemoved", "CastToRowGroupLayout"}) =>
       (rv # Crash => rv = NS_OK)
  /\ (op \in SizeMethods \cup {"Layout"}) => rv = baseRv
  /\ (op = "CastToRowGroupLayout") => aRowGroup = "this"

\* C9's case: a size query whose base delegate failed.
C9_Witness ==
  /\ op = "GetMaxSize" /\ baseRv = NS_ERROR_FAILURE /\ rv = NS_ERROR_FAILURE

====
